---- MODULE Spec2Model ----
(***************************************************************************)
(* Model of STAmount (src/src/Amount.cpp): the canonical (value, offset)   *)
(* representation, the 64-bit wire codec, the relational operators, the    *)
(* four arithmetic operators and the offer settlement getClaimed.          *)
(*                                                                         *)
(* An amount is value * 10^offset.  The program keeps 16 decimal digits in *)
(* value (10^15 .. 10^16-1), which TLC's integers cannot hold, so the      *)
(* model keeps Digits digits instead and every power of ten of the code is *)
(* written in terms of Digits: 10^15 is Pow10(Digits-1), 10^16 is          *)
(* Pow10(Digits), the 56 bit value field is MantBits wide.  The exponent   *)
(* field (8 bits) and its bias (142) are the program's own.  No operation  *)
(* of the program can overflow a uint64 (value is below 10^16 whenever it  *)
(* is multiplied by ten, sums are below 2*10^16, products and quotients    *)
(* are computed in CBigNum), so values are plain integers here.            *)
(***************************************************************************)
EXTENDS Integers, Sequences, FiniteSets, TLC

VARIABLES ndebug, op, v1, v2, res, err, cmp, word,
          offerOut, offerIn, paid, pre, ncalls, startLive

vars == <<ndebug, op, v1, v2, res, err, cmp, word,
          offerOut, offerIn, paid, pre, ncalls, startLive>>

-----------------------------------------------------------------------------
(* Bounds and constants *)

\* significant decimal digits of value (16 in the program)
Digits == 2

\* offsets of canonical amounts range over -OffsetRange .. OffsetRange
OffsetRange == 2

\* raw constructor arguments range over 0 .. MaxRawValue
MaxRawValue == 1200

\* number of getClaimed calls made on one offer
MaxCalls == 2

\* width of the exponent field of the wire word
ExpBits == 8

\* bias added to offset on the wire
Bias == 142

\* width of the value field of the wire word (64-8 in the program)
MantBits == 7

RECURSIVE Pow(_, _)
Pow(b, n) == IF n <= 0 THEN 1 ELSE b * Pow(b, n - 1)

Pow10(n) == Pow(10, n)

cMinValue == Pow10(Digits - 1)

cMaxValue == Pow10(Digits) - 1

cMinOffset == 0 - OffsetRange

cMaxOffset == OffsetRange

-----------------------------------------------------------------------------
(* Amounts *)

Amt(v, o) == [value |-> v, offset |-> o]

\* STAmount(): the zero amount
Zero == Amt(0, 0)

\* the result of an operation that returns an amount
Ok(v, o) == [value |-> v, offset |-> o, err |-> "none"]

\* the result of an operation that throws or aborts
Fail(e) == [value |-> 0, offset |-> 0, err |-> e]

AmtOf(r) == Amt(r.value, r.offset)

IsCanonical(a) ==
    \/ a.value = 0 /\ a.offset = 0
    \/ /\ a.value >= cMinValue /\ a.value <= cMaxValue
       /\ a.offset >= cMinOffset /\ a.offset <= cMaxOffset

NonZeroAmounts == { Amt(v, o) : v \in cMinValue..cMaxValue, o \in cMinOffset..cMaxOffset }

Amounts == NonZeroAmounts \cup {Zero}

\* the values of the offers and payments the settlement machine is run on:
\* the least and the greatest value, the least but one, and two between
SampleValues == { cMinValue, cMinValue + 1, 2 * cMinValue, 5 * cMinValue, cMaxValue }

\* and their offsets: both ends of the range and those around zero
SampleOffsets == { cMinOffset, 0 - 1, 0, 1, cMaxOffset }

SampleAmounts == { Amt(v, o) : v \in SampleValues, o \in SampleOffsets } \cup {Zero}

-----------------------------------------------------------------------------
(* canonicalize *)

RECURSIVE ScaleUp(_, _)
ScaleUp(v, o) ==
    IF v < cMinValue
    THEN IF o <= cMinOffset THEN Fail("value overflow") ELSE ScaleUp(v * 10, o - 1)
    ELSE Ok(v, o)

RECURSIVE ScaleDown(_, _)
ScaleDown(v, o) ==
    IF v > cMaxValue
    THEN IF o >= cMaxOffset THEN Fail("value underflow") ELSE ScaleDown(v \div 10, o + 1)
    ELSE Ok(v, o)

\* the two asserts that end canonicalize: a build with assertions aborts,
\* a build with NDEBUG returns the amount as it is
CheckAsserts(r, nd) ==
    IF /\ (r.value = 0 \/ (r.value >= cMinValue /\ r.value <= cMaxValue))
       /\ (r.offset >= cMinOffset /\ r.offset <= cMaxOffset)
    THEN r
    ELSE IF nd THEN r ELSE Fail("assert")

canonicalize(v, o, nd) ==
    IF v = 0 THEN Ok(0, 0)
    ELSE LET up == ScaleUp(v, o)
         IN IF up.err # "none" THEN up
            ELSE LET dn == ScaleDown(up.value, up.offset)
                 IN IF dn.err # "none" THEN dn ELSE CheckAsserts(dn, nd)

\* STAmount(value, offset): the raw pair, canonicalized
STAmount(v, o, nd) == canonicalize(v, o, nd)

-----------------------------------------------------------------------------
(* Wire codec *)

WordBits == ExpBits + MantBits

Words == 0 .. (Pow(2, WordBits) - 1)

\* construct with the upper bound of value off by one
construct_Mutant(w) ==
    LET offset == w \div Pow(2, MantBits)
        value  == w % Pow(2, MantBits)
    IN IF value = 0
       THEN IF offset # 0 THEN Fail("invalid currency value") ELSE Ok(value, offset)
       ELSE IF \/ value < cMinValue
               \/ value >= cMaxValue
               \/ offset - Bias < cMinOffset
               \/ offset - Bias > cMaxOffset
            THEN Fail("invalid currency value")
            ELSE Ok(value, offset - Bias)

\* STAmount::construct: decode a wire word
construct(w) ==
    LET offset == w \div Pow(2, MantBits)
        value  == w % Pow(2, MantBits)
    IN IF value = 0
       THEN IF offset # 0 THEN Fail("invalid currency value") ELSE Ok(value, offset)
       ELSE IF \/ value < cMinValue
               \/ value > cMaxValue
               \/ offset - Bias < cMinOffset
               \/ offset - Bias > cMaxOffset
            THEN Fail("invalid currency value")
            ELSE Ok(value, offset - Bias)

\* STAmount::add: encode into a wire word
add(a) ==
    IF a.value = 0 THEN 0
    ELSE (a.value + (((a.offset + Bias) % Pow(2, WordBits)) * Pow(2, MantBits))) % Pow(2, WordBits)

-----------------------------------------------------------------------------
(* Ordering *)

OpEq(t, a) == (t.offset = a.offset) /\ (t.value = a.value)

OpNe(t, a) == (t.offset # a.offset) \/ (t.value # a.value)

\* operator< with the tie on value broken by <=
OpLess_Mutant(t, a) ==
    IF t.value = 0 THEN FALSE
    ELSE IF t.offset < a.offset THEN TRUE
    ELSE IF a.offset < t.offset THEN FALSE
    ELSE t.value <= a.value

OpLess(t, a) ==
    IF t.value = 0 THEN FALSE
    ELSE IF t.offset < a.offset THEN TRUE
    ELSE IF a.offset < t.offset THEN FALSE
    ELSE t.value < a.value

OpGreater(t, a) ==
    IF t.value = 0 THEN a.value # 0
    ELSE IF t.offset > a.offset THEN TRUE
    ELSE IF a.offset > t.offset THEN FALSE
    ELSE t.value > a.value

OpLessEq(t, a) ==
    IF t.value = 0 THEN a.value = 0
    ELSE IF t.offset < a.offset THEN TRUE
    ELSE IF a.offset < t.offset THEN FALSE
    ELSE t.value <= a.value

OpGreaterEq(t, a) ==
    IF t.value = 0 THEN TRUE
    ELSE IF t.offset > a.offset THEN TRUE
    ELSE IF a.offset > t.offset THEN FALSE
    ELSE t.value >= a.value

-----------------------------------------------------------------------------
(* Arithmetic *)

\* the alignment loops of operator+ and operator-: divide by ten until the
\* offset reaches the other operand's
RECURSIVE AlignValue(_, _, _)
AlignValue(v, o, target) ==
    IF o < target THEN AlignValue(v \div 10, o + 1, target) ELSE v

AlignOffset(o, target) == IF o < target THEN target ELSE o

OpPlus(a, b, nd) ==
    LET x  == AlignValue(a.value, a.offset, b.offset)
        xo == AlignOffset(a.offset, b.offset)
        y  == AlignValue(b.value, b.offset, xo)
    IN STAmount(x + y, xo, nd)

OpMinus(a, b, nd) ==
    LET x  == AlignValue(a.value, a.offset, b.offset)
        xo == AlignOffset(a.offset, b.offset)
        y  == AlignValue(b.value, b.offset, xo)
    IN IF x < y THEN Fail("value underflow") ELSE STAmount(x - y, xo, nd)

OpDiv(num, den, nd) ==
    IF den.value = 0 THEN Fail("illegal offer")
    ELSE IF num.value = 0 THEN Ok(0, 0)
    ELSE STAmount((num.value * Pow10(Digits)) \div den.value,
                  num.offset - den.offset - Digits, nd)

OpMul(a, b, nd) ==
    IF a.value = 0 \/ b.value = 0 THEN Ok(0, 0)
    ELSE STAmount((a.value * b.value) \div Pow10(Digits - 1),
                  a.offset + b.offset + (Digits - 1), nd)

getRate(out, in, nd) == OpDiv(out, in, nd)

-----------------------------------------------------------------------------
(* Settlement *)

\* the state getClaimed leaves behind and what it returns or throws
Claimed(out, in, pd, r, e) ==
    [offerOut |-> out, offerIn |-> in, paid |-> pd, ret |-> r, err |-> e]

\* lines 246-252: the offer is dead
DeadOffer(out, in, pd) == Claimed(Zero, Zero, Zero, Zero, "none")

\* the whole offer is taken, paid left as it came
FullFill_KeepPaid(out, in, pd) == Claimed(Zero, Zero, pd, out, "none")

\* the whole offer is taken, offerIn not zeroed
FullFill_KeepIn(out, in, pd) == Claimed(Zero, in, in, out, "none")

\* lines 254-261: the whole offer is taken
FullFill(out, in, pd) == Claimed(Zero, Zero, in, out, "none")

\* partial satisfaction with offerIn decremented by what was received
PartialFill_Mutant(out, in, pd, nd) ==
    LET prod == OpMul(pd, out, nd)
    IN IF prod.err # "none" THEN Claimed(out, in, pd, Zero, prod.err)
       ELSE LET r == OpDiv(AmtOf(prod), in, nd)
            IN IF r.err # "none" THEN Claimed(out, in, pd, Zero, r.err)
               ELSE LET o2 == OpMinus(out, AmtOf(r), nd)
                    IN IF o2.err # "none" THEN Claimed(out, in, pd, Zero, o2.err)
                       ELSE LET i2 == OpMinus(in, AmtOf(r), nd)
                            IN IF i2.err # "none"
                               THEN Claimed(AmtOf(o2), in, pd, Zero, i2.err)
                               ELSE IF o2.value = 0 \/ i2.value = 0
                                    THEN Claimed(Zero, Zero, pd, AmtOf(r), "none")
                                    ELSE Claimed(AmtOf(o2), AmtOf(i2), pd, AmtOf(r), "none")

\* lines 263-272: partial satisfaction
PartialFill(out, in, pd, nd) ==
    LET prod == OpMul(pd, out, nd)
    IN IF prod.err # "none" THEN Claimed(out, in, pd, Zero, prod.err)
       ELSE LET r == OpDiv(AmtOf(prod), in, nd)
            IN IF r.err # "none" THEN Claimed(out, in, pd, Zero, r.err)
               ELSE LET o2 == OpMinus(out, AmtOf(r), nd)
                    IN IF o2.err # "none" THEN Claimed(out, in, pd, Zero, o2.err)
                       ELSE LET i2 == OpMinus(in, pd, nd)
                            IN IF i2.err # "none"
                               THEN Claimed(AmtOf(o2), in, pd, Zero, i2.err)
                               ELSE IF o2.value = 0 \/ i2.value = 0
                                    THEN Claimed(Zero, Zero, pd, AmtOf(r), "none")
                                    ELSE Claimed(AmtOf(o2), AmtOf(i2), pd, AmtOf(r), "none")

getClaimed(out, in, pd, nd) ==
    IF pd.value = 0 THEN Claimed(out, in, pd, Zero, "none")
    ELSE IF in.value = 0 \/ out.value = 0 THEN DeadOffer(out, in, pd)
    ELSE IF OpGreaterEq(pd, in) THEN FullFill(out, in, pd)
    ELSE PartialFill(out, in, pd, nd)

-----------------------------------------------------------------------------
(* State machine *)

NoCmp == [lt |-> FALSE, gt |-> FALSE, le |-> FALSE, ge |-> FALSE, eq |-> FALSE, ne |-> FALSE]

NoCall == [offerOut |-> Zero, offerIn |-> Zero, paid |-> Zero]

\* ndebug is the build: TRUE when assert() is compiled out.  A run of the
\* arithmetic, ordering or codec machine applies one operation to one input
\* (op = "init" until then).
Init ==
    /\ ndebug \in BOOLEAN
    /\ op = "init"
    /\ v1 = Zero /\ v2 = Zero /\ res = Zero /\ err = "none"
    /\ cmp = NoCmp
    /\ word = 0
    /\ offerOut = Zero /\ offerIn = Zero /\ paid = Zero
    /\ pre = NoCall
    /\ ncalls = 0
    /\ startLive = FALSE

\* an offer and a build; no call made yet.  pre holds the arguments of the
\* last call, startLive whether the offer started with both sides non-zero.
InitSettle ==
    /\ ndebug \in BOOLEAN
    /\ op = "init"
    /\ v1 = Zero /\ v2 = Zero /\ res = Zero /\ err = "none"
    /\ cmp = NoCmp
    /\ word = 0
    /\ offerOut \in SampleAmounts /\ offerIn \in SampleAmounts /\ paid = Zero
    /\ pre = NoCall
    /\ ncalls = 0
    /\ startLive = (offerOut.value # 0 /\ offerIn.value # 0)

Settlement == <<offerOut, offerIn, paid, pre, ncalls, startLive>>

\* an operation on a and b has returned or thrown r
Applied(name, a, b, r) ==
    /\ op' = name
    /\ v1' = a /\ v2' = b
    /\ res' = AmtOf(r) /\ err' = r.err
    /\ UNCHANGED <<ndebug, cmp, word, Settlement>>

\* operand pairs: every canonical amount against every other
OperandPairs == Amounts \X Amounts

RawOffsets == (cMinOffset - 1) .. (cMaxOffset + 1)

\* STAmount(value, offset) on a raw pair
RawConstruct ==
    /\ op = "init"
    /\ \E v \in 0..MaxRawValue, o \in RawOffsets :
        Applied("raw", Amt(v, o), Zero, STAmount(v, o, ndebug))

Plus ==
    /\ op = "init"
    /\ \E ab \in OperandPairs : Applied("plus", ab[1], ab[2], OpPlus(ab[1], ab[2], ndebug))

Minus ==
    /\ op = "init"
    /\ \E ab \in OperandPairs : Applied("minus", ab[1], ab[2], OpMinus(ab[1], ab[2], ndebug))

Mul ==
    /\ op = "init"
    /\ \E ab \in OperandPairs : Applied("mul", ab[1], ab[2], OpMul(ab[1], ab[2], ndebug))

Div ==
    /\ op = "init"
    /\ \E ab \in OperandPairs : Applied("div", ab[1], ab[2], OpDiv(ab[1], ab[2], ndebug))

\* all six relational operators on one pair of canonical amounts
Compare ==
    /\ op = "init"
    /\ \E a \in Amounts, b \in Amounts :
        /\ op' = "compare"
        /\ v1' = a /\ v2' = b
        /\ cmp' = [lt |-> OpLess(a, b), gt |-> OpGreater(a, b),
                   le |-> OpLessEq(a, b), ge |-> OpGreaterEq(a, b),
                   eq |-> OpEq(a, b), ne |-> OpNe(a, b)]
        /\ UNCHANGED <<ndebug, res, err, word, Settlement>>

\* add() writes a canonical amount, construct() reads the word back
Encode ==
    /\ op = "init"
    /\ \E a \in Amounts :
        LET r == construct(add(a))
        IN /\ op' = "encode"
           /\ v1' = a
           /\ word' = add(a)
           /\ res' = AmtOf(r) /\ err' = r.err
           /\ UNCHANGED <<ndebug, v2, cmp, Settlement>>

\* construct() reads an arbitrary word
Decode ==
    /\ op = "init"
    /\ \E w \in Words :
        LET r == construct(w)
        IN /\ op' = "decode"
           /\ word' = w
           /\ res' = AmtOf(r) /\ err' = r.err
           /\ UNCHANGED <<ndebug, v1, v2, cmp, Settlement>>

\* one getClaimed call on the offer; a failed assert ends the process, an
\* exception leaves the caller free to call again
GetClaimed ==
    /\ ncalls < MaxCalls
    /\ err # "assert"
    /\ \E p \in SampleAmounts :
        LET c == getClaimed(offerOut, offerIn, p, ndebug)
        IN /\ op' = "getClaimed"
           /\ pre' = [offerOut |-> offerOut, offerIn |-> offerIn, paid |-> p]
           /\ offerOut' = c.offerOut
           /\ offerIn' = c.offerIn
           /\ paid' = c.paid
           /\ res' = c.ret
           /\ err' = c.err
           /\ ncalls' = ncalls + 1
           /\ UNCHANGED <<ndebug, v1, v2, cmp, word, startLive>>

NextArith == RawConstruct \/ Plus \/ Minus \/ Mul \/ Div

NextOrder == Compare

NextCodec == Encode \/ Decode

NextSettle == GetClaimed

SpecArith == Init /\ [][NextArith]_vars

SpecOrder == Init /\ [][NextOrder]_vars

SpecCodec == Init /\ [][NextCodec]_vars

SpecSettle == InitSettle /\ [][NextSettle]_vars

-----------------------------------------------------------------------------
(* Reference notions the claims are stated with *)

MinOf(x, y) == IF x < y THEN x ELSE y

\* a's value in units of 10^m, for m at most a's offset
Scaled(a, m) == a.value * Pow10(a.offset - m)

\* value(a) < value(b) as real numbers
RealLess(a, b) ==
    LET m == MinOf(a.offset, b.offset)
    IN Scaled(a, m) < Scaled(b, m)

\* the amount whose value is 1
One == Amt(cMinValue, 0 - (Digits - 1))

\* the canonical amount of the integer n
Num(n) == AmtOf(STAmount(n, 0, TRUE))

-----------------------------------------------------------------------------
(* Ordering claims (SpecOrder) *)

\* C3: for canonical a and b, zero included, a < b, a > b, a <= b and a >= b
\* return true exactly when value(a) is less than, greater than, at most, at
\* least value(b); in particular a <= b is true whenever a is zero.
C3_RelationalAgreeWithReals ==
    op = "compare" =>
        /\ cmp.lt = RealLess(v1, v2)
        /\ cmp.gt = RealLess(v2, v1)
        /\ cmp.le = ~RealLess(v2, v1)
        /\ cmp.ge = ~RealLess(v1, v2)
        /\ (v1.value = 0 => cmp.le)

\* C4: trichotomy: for canonical a and b, zero included, exactly one of
\* a < b, a == b, a > b is true.
C4_Trichotomy ==
    op = "compare" =>
        \/ cmp.lt /\ ~cmp.eq /\ ~cmp.gt
        \/ ~cmp.lt /\ cmp.eq /\ ~cmp.gt
        \/ ~cmp.lt /\ ~cmp.eq /\ cmp.gt

\* a zero amount has been compared with a non-zero one of negative offset
C4_Witness ==
    /\ op = "compare"
    /\ v1.value # 0 /\ v1.offset < 0
    /\ v2 = Zero
    /\ cmp.lt /\ ~cmp.eq /\ ~cmp.gt

-----------------------------------------------------------------------------
(* Codec claims (SpecCodec) *)

ExpField(w) == w \div Pow(2, MantBits)

MantField(w) == w % Pow(2, MantBits)

\* C2: construct(add(x)) succeeds and returns x for every canonical x, and
\* construct succeeds on a word only if the word is the encoding of a
\* canonical amount: a zero value field with a non-zero exponent field, a
\* non-zero value outside [cMinValue, cMaxValue] and an unbiased exponent
\* outside [cMinOffset, cMaxOffset] are rejected.
C2_CodecInverse ==
    /\ op = "encode" => (err = "none" /\ res = v1)
    /\ (op = "decode" /\ err = "none") => (IsCanonical(res) /\ add(res) = word)
    /\ ( /\ op = "decode"
         /\ \/ MantField(word) = 0 /\ ExpField(word) # 0
            \/ MantField(word) # 0 /\ MantField(word) < cMinValue
            \/ MantField(word) > cMaxValue
            \/ MantField(word) # 0 /\ ExpField(word) - Bias < cMinOffset
            \/ MantField(word) # 0 /\ ExpField(word) - Bias > cMaxOffset )
       => err = "invalid currency value"

\* the greatest value at the least offset has been written and read back
C2_Witness ==
    /\ op = "encode"
    /\ v1 = Amt(cMaxValue, cMinOffset)
    /\ word = cMaxValue + (cMinOffset + Bias) * Pow(2, MantBits)
    /\ res = v1

-----------------------------------------------------------------------------
(* Arithmetic claims (SpecArith) *)

\* C1: every amount returned without an error by raw construction followed
\* by canonicalize, or by operator+, operator-, operator* or operator/ on
\* canonical operands, is in canonical form.
C1_ResultsCanonical ==
    (op \in {"raw", "plus", "minus", "mul", "div"} /\ err = "none") => IsCanonical(res)

\* C5: zero is the identity of addition: a + 0 and 0 + a return a, value and
\* offset alike, for every canonical a.
C5_AddZeroIdentity ==
    /\ (op = "plus" /\ v2 = Zero) => (err = "none" /\ res = v1)
    /\ (op = "plus" /\ v1 = Zero) => (err = "none" /\ res = v2)

\* C8: (cMaxValue, cMaxOffset) times any canonical amount greater than 1
\* throws "value underflow", and (cMinValue, cMinOffset) divided by any
\* canonical amount greater than 1 throws "value overflow"; no amount is
\* returned and no assertion fails instead.
C8_BoundaryErrors ==
    /\ (op = "mul" /\ v1 = Amt(cMaxValue, cMaxOffset) /\ RealLess(One, v2))
           => err = "value underflow"
    /\ (op = "div" /\ v1 = Amt(cMinValue, cMinOffset) /\ RealLess(One, v2))
           => err = "value overflow"

-----------------------------------------------------------------------------
(* Settlement claims (SpecSettle) *)

\* the last call was made with paid and both sides of the offer non-zero
LiveCall ==
    /\ op = "getClaimed"
    /\ pre.paid.value # 0
    /\ pre.offerIn.value # 0
    /\ pre.offerOut.value # 0

\* C6: full fill: when paid, offerIn and offerOut are non-zero and
\* paid >= offerIn, the call leaves offerIn == 0 and offerOut == 0, sets paid
\* to the offerIn it was called with and returns the offerOut it was called
\* with.
C6_FullFill ==
    (LiveCall /\ ~RealLess(pre.paid, pre.offerIn)) =>
        /\ err = "none"
        /\ offerIn = Zero
        /\ offerOut = Zero
        /\ paid = pre.offerIn
        /\ res = pre.offerOut

\* a payment greater than offerIn has been cut down to offerIn
C6_Witness ==
    /\ LiveCall
    /\ RealLess(pre.offerIn, pre.paid)
    /\ paid = pre.offerIn
    /\ paid # pre.paid
    /\ res = pre.offerOut
    /\ offerOut = Zero /\ offerIn = Zero

\* what a partial fill computes, from the operators: received, and the two
\* remainders
Received == OpDiv(AmtOf(OpMul(pre.paid, pre.offerOut, ndebug)), pre.offerIn, ndebug)

RemainOut == OpMinus(pre.offerOut, AmtOf(Received), ndebug)

RemainIn == OpMinus(pre.offerIn, pre.paid, ndebug)

\* C7: partial fill: when paid, offerIn and offerOut are non-zero, paid >=
\* offerIn is false and no error is raised, the call returns
\* (paid * offerOut) / offerIn, leaves paid unchanged and sets offerOut to
\* offerOut - received and offerIn to offerIn - paid, or both to zero if
\* either remainder is zero; offerOut = 100, offerIn = 50, paid = 10 returns
\* 20 and leaves 80, 40 and 10.
C7_PartialFill ==
    /\ (LiveCall /\ RealLess(pre.paid, pre.offerIn) /\ err = "none") =>
        /\ res = AmtOf(Received)
        /\ paid = pre.paid
        /\ IF RemainOut.value = 0 \/ RemainIn.value = 0
           THEN offerOut = Zero /\ offerIn = Zero
           ELSE offerOut = AmtOf(RemainOut) /\ offerIn = AmtOf(RemainIn)
    /\ ( /\ op = "getClaimed"
         /\ pre = [offerOut |-> Num(100), offerIn |-> Num(50), paid |-> Num(10)] ) =>
        /\ err = "none"
        /\ res = Num(20)
        /\ offerOut = Num(80)
        /\ offerIn = Num(40)
        /\ paid = Num(10)

\* the call of the example has returned 20
C7_Witness ==
    /\ op = "getClaimed"
    /\ pre = [offerOut |-> Num(100), offerIn |-> Num(50), paid |-> Num(10)]
    /\ err = "none"
    /\ res = Num(20)
    /\ offerOut = Num(80)

\* C9: no half-dead offer: from an offer with both sides non-zero, after any
\* sequence of getClaimed calls, after every call that returns without an
\* error offerOut and offerIn are both zero or both non-zero.
C9_NoHalfDeadOffer ==
    (startLive /\ op = "getClaimed" /\ err = "none") =>
        ((offerOut.value = 0) <=> (offerIn.value = 0))

\* a second call has partly filled what the first call left of the offer
C9_Witness ==
    /\ startLive
    /\ ncalls = 2
    /\ err = "none"
    /\ LiveCall
    /\ offerOut.value # 0 /\ offerIn.value # 0
    /\ offerOut # pre.offerOut /\ offerIn # pre.offerIn

\* C10: all-or-nothing on failure: whenever a getClaimed call on canonical
\* offerOut, offerIn and paid raises an error, offerOut, offerIn and paid
\* hold the values they had before the call.
C10_FailureLeavesStateUnchanged ==
    (op = "getClaimed" /\ err \notin {"none", "assert"}) =>
        /\ offerOut = pre.offerOut
        /\ offerIn = pre.offerIn
        /\ paid = pre.paid

====
